---- MODULE Spec2Model ----
(***************************************************************************)
(* Model of the WebGPU grid renderer: the timer-driven updateGrid handler  *)
(* (host side), the device queue it feeds, and the vertex stage of the     *)
(* cell shader (device side).                                              *)
(*                                                                         *)
(* Arithmetic: the shader converts the instance index to f32 and decodes   *)
(* the cell with f32 operations; these are modelled with a 24-bit          *)
(* significand and round-to-nearest-even.  The clip-space position is      *)
(* computed with exact rationals <<numerator, denominator>>.               *)
(***************************************************************************)
EXTENDS Integers, Sequences, FiniteSets, TLC

VARIABLES
    GRID_SIZE,   \* grid dimension N (width = height)
    step,        \* module-level simulation step counter
    frames,      \* one record per updateGrid invocation, in invocation order
    pipelines,   \* number of createRenderPipeline calls so far
    bindGroups,  \* number of createBindGroup calls so far
    queue,       \* device.queue: every operation enqueued so far, FIFO
    executed,    \* number of queue operations the device has executed
    buffers,     \* device memory: buffers[k][label] for invocation k
    rendered,    \* vertex-stage output of the last executed draw
    shaderRuns   \* the last two single vertex-stage runs (shader harness)

vars == <<GRID_SIZE, step, frames, pipelines, bindGroups, queue, executed,
          buffers, rendered, shaderRuns>>

\* ---------------------------------------------------------------- bounds
MaxGrid == 3
MaxSteps == 3
InstanceWindow == 2

None == "none"

\* ------------------------------------------------------------ arithmetic
RECURSIVE Pow2(_)
Pow2(k) == IF k = 0 THEN 1 ELSE 2 * Pow2(k - 1)

RECURSIVE Log2Floor(_)
Log2Floor(n) == IF n < 2 THEN 0 ELSE 1 + Log2Floor(n \div 2)

RECURSIVE GCD(_, _)
GCD(a, b) == IF b = 0 THEN a ELSE GCD(b, a % b)

Abs(a) == IF a < 0 THEN -a ELSE a

\* exact rationals, normalised, denominator > 0
Rat(n, d) == LET g == GCD(Abs(n), Abs(d))
                 s == IF d < 0 THEN -1 ELSE 1
             IN  <<(s * n) \div g, (s * d) \div g>>
RInt(n) == <<n, 1>>
RAdd(a, b) == Rat(a[1] * b[2] + b[1] * a[2], a[2] * b[2])
RSub(a, b) == Rat(a[1] * b[2] - b[1] * a[2], a[2] * b[2])
RMul(a, b) == Rat(a[1] * b[1], a[2] * b[2])
RDiv(a, b) == Rat(a[1] * b[2], a[2] * b[1])
RLe(a, b) == a[1] * b[2] <= b[1] * a[2]
RLt(a, b) == a[1] * b[2] < b[1] * a[2]

\* ------------------------------------------------------ f32 (significand)
F32Bits == 24

\* nearest f32 to the natural number n, ties to even
F32OfNat(n) ==
    IF n < Pow2(F32Bits) THEN n
    ELSE LET q   == Pow2(Log2Floor(n) - (F32Bits - 1))
             m   == n \div q
             rem == n - m * q
         IN  IF 2 * rem < q THEN m * q
             ELSE IF 2 * rem > q THEN (m + 1) * q
             ELSE IF m % 2 = 0 THEN m * q ELSE (m + 1) * q

F32OfInt(n) == IF n < 0 THEN -F32OfNat(-n) ELSE F32OfNat(n)

\* <<floor(r * 2^k / y), (r * 2^k) mod y>> by long division, for 0 <= r < y
RECURSIVE ShiftDiv(_, _, _)
ShiftDiv(r, y, k) ==
    IF k = 0 THEN <<0, r>>
    ELSE LET p == ShiftDiv(r, y, k - 1)
             t == 2 * p[2]
         IN  IF t >= y THEN <<2 * p[1] + 1, t - y>> ELSE <<2 * p[1], t>>

\* trunc of the f32 quotient x / y, for f32 integers x >= 0, y > 0
F32DivTrunc(x, y) ==
    LET Q == x \div y
        r == x % y
    IN  IF r = 0 THEN F32OfNat(Q)
        ELSE IF Q = 0
             THEN \* x/y < 1 rounds up to 1 only within 2^-25 of 1
                  IF (y - x) <= y \div Pow2(F32Bits + 1) THEN 1 ELSE 0
        ELSE LET e == Log2Floor(Q)
             IN  IF e >= F32Bits - 1
                 THEN LET q   == Pow2(e - (F32Bits - 1))
                          m   == Q \div q
                          rem == x - m * q * y
                      IN  IF 2 * rem < q * y THEN m * q
                          ELSE IF 2 * rem > q * y THEN (m + 1) * q
                          ELSE IF m % 2 = 0 THEN m * q ELSE (m + 1) * q
                 ELSE LET k  == (F32Bits - 1) - e
                          p  == ShiftDiv(r, y, k)
                          m  == Q * Pow2(k) + p[1]
                          up == \/ 2 * p[2] > y
                                \/ 2 * p[2] = y /\ m % 2 = 1
                      IN  (IF up THEN m + 1 ELSE m) \div Pow2(k)

\* WGSL f32 remainder: x - y * trunc(x / y), each operation rounded
F32Mod(x, y) == F32OfInt(x - F32OfNat(y * F32DivTrunc(x, y)))

\* ------------------------------------------------------------- host data
\* new Uint32Array(n): n zeroes, indexed from 0
Uint32ArrayNew(n) == [i \in 0 .. n - 1 |-> 0]

\* for (i = 0; i < length; i += 3) cellStateArray[i] = 1
FillEveryThird(arr) == [i \in DOMAIN arr |-> IF i % 3 = 0 THEN 1 ELSE arr[i]]

\* for (i = 0; i < length; i++) cellStateArray[i] = 1 % 2
FillEverySecond(arr) == [i \in DOMAIN arr |-> 1 % 2]

\* the contents of the one host array cellStateArray after each of its fills
CellStateHistory(N) ==
    LET a0 == Uint32ArrayNew(N * N)
        a1 == FillEveryThird(a0)
        a2 == FillEverySecond(a1)
    IN  <<a1, a2>>

\* writeBuffer copies the source array as it is at the time of the call
WriteBufferAliased(history, t) == history[Len(history)]
WriteBufferData(history, t) == history[t]

\* new Float32Array([GRID_SIZE, GRID_SIZE])
GridSizeUniformArray(N) == <<F32OfNat(N), F32OfNat(N)>>

\* the 12 floats of the quad: two triangles, bl br tr / bl tl tr
vertices ==
    <<Rat(-8, 10), Rat(-8, 10), Rat(8, 10), Rat(-8, 10), Rat(8, 10), Rat(8, 10),
      Rat(-8, 10), Rat(-8, 10), Rat(-8, 10), Rat(8, 10), Rat(8, 10), Rat(8, 10)>>

\* vertex fetch through vertexBufferLayout: arrayStride 8 bytes, float32x2
VertexFetch(data, v) == <<data[2 * v - 1], data[2 * v]>>

StateLabels == <<"Cell State A", "Cell State B">>
BufferLabels == {"Cell State A", "Cell State B", "Grid Uniforms", "Cell vertices"}

\* createBuffer: device memory starts zeroed and unwritten
CreateBuffers(N) ==
    [l \in BufferLabels |->
        [written |-> FALSE,
         data |-> CASE l = "Grid Uniforms" -> <<0, 0>>
                    [] l = "Cell vertices" -> [j \in 1 .. Len(vertices) |-> RInt(0)]
                    [] OTHER -> Uint32ArrayNew(N * N)]]

\* the two bind groups: binding 0 the uniform buffer, binding 1 a state buffer
BindGroupPair ==
    [g \in 0 .. 1 |->
        [label |-> IF g = 0 THEN "Cell renderer bind group A"
                   ELSE "Cell renderer bind group B",
         entries |-> [b \in 0 .. 1 |->
                        IF b = 0 THEN "Grid Uniforms" ELSE StateLabels[g + 1]]]]

\* step++
NextStepWrapped(s) == (s + 1) % 2
NextStep(s) == s + 1

\* bindGroups[step % 2]
SelectBindGroupPrevStep(groups, s) == groups[(s + 1) % 2]
SelectBindGroupFixed(groups, s) == groups[0]
SelectBindGroup(groups, s) == groups[s % 2]

\* renderPass.draw(vertices.length / 2, GRID_SIZE * GRID_SIZE)
DrawArgs(N) == [vertexCount |-> Len(vertices) \div 2, instanceCount |-> N * N]

WriteOp(k, label, data) == [op |-> "writeBuffer", inv |-> k, buffer |-> label, data |-> data]

\* the command buffer recorded between beginRenderPass and encoder.finish()
CommandBuffer(k, N, s) ==
    [op |-> "submit", inv |-> k, pipeline |-> "Cell pipeline",
     vertexBuffer |-> "Cell vertices",
     bindGroup |-> SelectBindGroup(BindGroupPair, s),
     draw |-> DrawArgs(N)]

\* the four writeBuffer calls of one invocation, in program order
Writes(k, N) ==
    <<WriteOp(k, "Cell State A", WriteBufferData(CellStateHistory(N), 1)),
      WriteOp(k, "Cell State B", WriteBufferData(CellStateHistory(N), 2)),
      WriteOp(k, "Grid Uniforms", GridSizeUniformArray(N)),
      WriteOp(k, "Cell vertices", vertices)>>

\* what invocation k puts on device.queue: the writes, then (unless
\* getCurrentTexture threw before the pass was recorded) the submit
EnqueuedSubmitAlways(k, N, s, acquired) == Writes(k, N) \o <<CommandBuffer(k, N, s)>>
EnqueuedSubmitEarly(k, N, s, acquired) ==
    SubSeq(Writes(k, N), 1, 3)
        \o (IF acquired THEN <<CommandBuffer(k, N, s)>> ELSE <<>>)
        \o SubSeq(Writes(k, N), 4, 4)
Enqueued(k, N, s, acquired) ==
    Writes(k, N) \o (IF acquired THEN <<CommandBuffer(k, N, s)>> ELSE <<>>)

\* ---------------------------------------------------------- vertex stage
\* cell = (i % grid.x, floor(i / grid.x)) with i = f32(instance)
CellOfTransposed(instance, grid) ==
    LET i == F32OfNat(instance)
    IN  <<F32DivTrunc(i, grid[1]), F32Mod(i, grid[1])>>
CellOf(instance, grid) ==
    LET i == F32OfNat(instance)
    IN  <<F32Mod(i, grid[1]), F32DivTrunc(i, grid[1])>>

\* cellOffset = (cell / grid) * 2
CellOffsetUnscaled(cell, grid) ==
    [a \in 1 .. 2 |-> RDiv(RInt(cell[a]), RInt(grid[a]))]
CellOffset(cell, grid) ==
    [a \in 1 .. 2 |-> RMul(RDiv(RInt(cell[a]), RInt(grid[a])), RInt(2))]

\* vertexMain(input): input = [pos, instance]
VertexMain(input, grid, cellState) ==
    LET cell           == CellOf(input.instance, grid)
        state          == F32OfNat(cellState[input.instance])
        cellOffset     == CellOffset(cell, grid)
        currentCellPos == [a \in 1 .. 2 |->
                             RSub(RDiv(RAdd(RMul(input.pos[a], RInt(state)), RInt(1)),
                                       RInt(grid[a])),
                                  RInt(1))]
        gridPos        == [a \in 1 .. 2 |-> RAdd(currentCellPos[a], cellOffset[a])]
    IN  [pos |-> <<gridPos[1], gridPos[2], RInt(0), RInt(1)>>, cell |-> cell]

\* the device executing one submitted draw against device memory
RunDraw(cmd, mem) ==
    LET m     == mem[cmd.inv]
        slot0 == cmd.bindGroup.entries[0]
        slot1 == cmd.bindGroup.entries[1]
    IN  [inv |-> cmd.inv,
         bound |-> slot1,
         inputsReady |-> /\ m[slot0].written
                         /\ m[slot1].written
                         /\ m[cmd.vertexBuffer].written,
         state |-> m[slot1].data,
         out |-> [i \in 0 .. cmd.draw.instanceCount - 1 |->
                    [v \in 1 .. cmd.draw.vertexCount |->
                        VertexMain([pos |-> VertexFetch(m[cmd.vertexBuffer].data, v),
                                    instance |-> i],
                                   m[slot0].data, m[slot1].data)]]]

\* ------------------------------------------------------------ main model
\* const GRID_SIZE = 32
GRID_SIZE_CONFIGURED == 32

\* the configured grid size, and the small ones
GridSizes == (1 .. MaxGrid) \cup {GRID_SIZE_CONFIGURED}

Init ==
    /\ GRID_SIZE \in GridSizes
    /\ step = 0
    /\ frames = <<>>
    /\ pipelines = 0
    /\ bindGroups = 0
    /\ queue = <<>>
    /\ executed = 0
    /\ buffers = <<>>
    /\ rendered = [inv |-> 0, bound |-> None, inputsReady |-> TRUE,
                   state |-> <<>>, out |-> <<>>]
    /\ shaderRuns = <<>>

Submits(ops) == {j \in 1 .. Len(ops) : ops[j].op = "submit"}

\* one timer tick: the whole of updateGrid.  acquired = FALSE is
\* getCurrentTexture throwing: the exception leaves the handler, nothing
\* after line 175 runs, and setInterval keeps scheduling.
UpdateGrid ==
    /\ step < MaxSteps
    /\ \E acquired \in BOOLEAN :
         LET k   == Len(frames) + 1
             s   == NextStep(step)
             ops == Enqueued(k, GRID_SIZE, s, acquired)
         IN  /\ step' = s
             /\ buffers' = Append(buffers, CreateBuffers(GRID_SIZE))
             /\ pipelines' = pipelines + 1
             /\ bindGroups' = bindGroups + 2
             /\ queue' = queue \o ops
             /\ frames' = Append(frames,
                    [step |-> s,
                     acquired |-> acquired,
                     submits |-> Cardinality(Submits(ops)),
                     bound |-> IF Submits(ops) = {} THEN None
                               ELSE ops[CHOOSE j \in Submits(ops) : TRUE].bindGroup.entries[1],
                     instances |-> IF Submits(ops) = {} THEN 0
                                   ELSE ops[CHOOSE j \in Submits(ops) : TRUE].draw.instanceCount])
    /\ UNCHANGED <<GRID_SIZE, executed, rendered, shaderRuns>>

\* the device takes the next operation off the queue, in FIFO order
ExecuteQueue ==
    /\ executed < Len(queue)
    /\ LET cmd == queue[executed + 1]
       IN  IF cmd.op = "writeBuffer"
           THEN /\ buffers' = [buffers EXCEPT ![cmd.inv][cmd.buffer] =
                                  [written |-> TRUE, data |-> cmd.data]]
                /\ UNCHANGED rendered
           ELSE /\ rendered' = RunDraw(cmd, buffers)
                /\ UNCHANGED buffers
    /\ executed' = executed + 1
    /\ UNCHANGED <<GRID_SIZE, step, frames, pipelines, bindGroups, queue, shaderRuns>>

Next == UpdateGrid \/ ExecuteQueue

Spec == Init /\ [][Next]_vars

TypeOK ==
    /\ GRID_SIZE \in GridSizes
    /\ step \in 0 .. MaxSteps
    /\ executed \in 0 .. Len(queue)
    /\ Len(buffers) = Len(frames)

\* ------------------------------------------------------- shader harness
\* The vertex stage as a function of the instance index, over the instance
\* range of the draw call, at grid sizes up to the f32 exactness limit.
ShaderGridSizes ==
    GridSizes \cup {Pow2(F32Bits \div 2), Pow2(F32Bits \div 2) + 1}

\* every instance of a small draw; of a large one those next to 0, to 2^24
\* and to the last instance
SampleInstances(count) ==
    IF count <= MaxGrid * MaxGrid THEN 0 .. count - 1
    ELSE {i \in (0 .. InstanceWindow)
                \cup (Pow2(F32Bits) - InstanceWindow .. Pow2(F32Bits) + InstanceWindow)
                \cup (count - 1 - InstanceWindow .. count - 1) :
            0 <= i /\ i < count}

HistoryIndex(label) == IF label = "Cell State A" THEN 1 ELSE 2

InitShader ==
    /\ GRID_SIZE \in ShaderGridSizes
    /\ step = 0
    /\ frames = <<>>
    /\ pipelines = 0
    /\ bindGroups = 0
    /\ queue = <<>>
    /\ executed = 0
    /\ buffers = <<>>
    /\ rendered = [inv |-> 0, bound |-> None, inputsReady |-> TRUE,
                   state |-> <<>>, out |-> <<>>]
    /\ shaderRuns = <<>>

\* one vertex-stage invocation of a draw of DrawArgs(GRID_SIZE), with the
\* bind group of step s bound; the runs kept are the same vertex of two
\* instances of one draw
RunVertexMain ==
    /\ \E s \in 1 .. 2 :
       \E v \in 1 .. DrawArgs(GRID_SIZE).vertexCount :
       \E i \in SampleInstances(DrawArgs(GRID_SIZE).instanceCount) :
         LET slot1 == SelectBindGroup(BindGroupPair, s).entries[1]
             cs    == WriteBufferData(CellStateHistory(GRID_SIZE), HistoryIndex(slot1))
             run   == [instance |-> i,
                       vertex |-> v,
                       bound |-> slot1,
                       state |-> cs[i],
                       draw |-> DrawArgs(GRID_SIZE),
                       out |-> VertexMain([pos |-> VertexFetch(vertices, v), instance |-> i],
                                          GridSizeUniformArray(GRID_SIZE), cs)]
         IN  /\ IF shaderRuns = <<>> THEN TRUE
                ELSE shaderRuns[1].vertex = v /\ shaderRuns[1].bound = slot1
             /\ shaderRuns' = <<run>> \o SubSeq(shaderRuns, 1, IF shaderRuns = <<>> THEN 0 ELSE 1)
    /\ UNCHANGED <<GRID_SIZE, step, frames, pipelines, bindGroups, queue, executed,
                   buffers, rendered>>

NextShader == RunVertexMain

ShaderSpec == InitShader /\ [][NextShader]_vars

\* ================================================================ claims
N == GRID_SIZE
EveryThirdActive(n) == [i \in 0 .. n - 1 |-> IF i % 3 = 0 THEN 1 ELSE 0]
OddActive(n) == [i \in 0 .. n - 1 |-> IF i % 2 = 1 THEN 1 ELSE 0]
SubmitsOf(k) == {j \in Submits(queue) : queue[j].inv = k}
ExecutedSubmits == {j \in Submits(queue) : j <= executed}
\* rendered changes only when the device executes a draw: it is examined in
\* the state that execution produces
JustDrawn == executed > 0 /\ queue[executed].op = "submit"

\* C1 (as stated): invocation k (0-indexed) binds the bind group of state
\* buffer A when k is even and that of state buffer B when k is odd.
C1_Orig ==
    \A k \in 1 .. Len(frames) :
        frames[k].bound # None =>
            frames[k].bound = IF (k - 1) % 2 = 0 THEN "Cell State A" ELSE "Cell State B"

\* C1 (amended): step is incremented before the selection, so invocation k
\* (0-indexed) binds the bind group of state buffer B when k is even and that
\* of state buffer A when k is odd.
C1_Thm ==
    \A k \in 1 .. Len(frames) :
        frames[k].bound # None =>
            frames[k].bound = IF (k - 1) % 2 = 0 THEN "Cell State B" ELSE "Cell State A"

C1_Witness ==
    /\ Len(frames) >= 2
    /\ frames[1].bound = "Cell State B"
    /\ frames[2].bound = "Cell State A"

\* C2: across any run the render pipeline is created exactly once and exactly
\* two bind groups are created, however many times updateGrid has run, and M
\* invocations issue M draw submissions.
C2_Orig ==
    Len(frames) >= 1 =>
        /\ pipelines = 1
        /\ bindGroups = 2
        /\ (\A k \in 1 .. Len(frames) : frames[k].acquired) =>
               Cardinality(Submits(queue)) = Len(frames)

\* C3: whenever a draw is executed, and whenever state buffer A has received
\* its write, buffer A holds 1 at the indices divisible by 3 and 0 elsewhere,
\* also after the host array was refilled and written to buffer B.
C3_Thm ==
    /\ \A k \in 1 .. Len(buffers) :
          buffers[k]["Cell State A"].written =>
              buffers[k]["Cell State A"].data = EveryThirdActive(N * N)
    /\ \A j \in ExecutedSubmits :
          /\ buffers[queue[j].inv]["Cell State A"].written
          /\ buffers[queue[j].inv]["Cell State A"].data = EveryThirdActive(N * N)
    /\ (JustDrawn /\ rendered.bound = "Cell State A") =>
          rendered.state = EveryThirdActive(N * N)

C3_Witness ==
    /\ N = GRID_SIZE_CONFIGURED
    /\ JustDrawn
    /\ rendered.bound = "Cell State A"
    /\ buffers[rendered.inv]["Cell State B"].written

\* C4: the contents written to state buffer B are 1 at the odd indices and 0
\* at the even ones.
C4_Orig ==
    \A k \in 1 .. Len(buffers) :
        buffers[k]["Cell State B"].written =>
            buffers[k]["Cell State B"].data = OddActive(N * N)

\* C5 (as stated): for every N the draw has N*N instances and the shader
\* decodes instance i to (i mod N, floor(i / N)), one cell per instance and
\* every cell of the grid.
C5_Decoding ==
    /\ \A r \in 1 .. Len(shaderRuns) :
          /\ shaderRuns[r].draw.instanceCount = N * N
          /\ shaderRuns[r].out.cell \in (0 .. N - 1) \X (0 .. N - 1)
          /\ shaderRuns[r].out.cell =
                 <<shaderRuns[r].instance % N, shaderRuns[r].instance \div N>>
    /\ (Len(shaderRuns) = 2 /\ shaderRuns[1].instance # shaderRuns[2].instance) =>
          shaderRuns[1].out.cell # shaderRuns[2].out.cell
    /\ N <= MaxGrid =>
          {CellOf(i, GridSizeUniformArray(N)) : i \in 0 .. DrawArgs(N).instanceCount - 1}
              = (0 .. N - 1) \X (0 .. N - 1)

C6_Thm ==
    \A k \in 1 .. Len(frames) :
        ~frames[k].acquired =>
            /\ frames[k].submits = 0
            /\ SubmitsOf(k) = {}
            /\ k = Len(frames) => step = frames[k].step
            /\ k < Len(frames) =>
                  /\ frames[k + 1].step = frames[k].step + 1
                  /\ frames[k + 1].acquired =>
                        /\ frames[k + 1].submits = 1
                        /\ Cardinality(SubmitsOf(k + 1)) = 1

C6_Witness ==
    /\ Len(frames) >= 3
    /\ frames[1].acquired
    /\ ~frames[2].acquired
    /\ frames[3].acquired
    /\ frames[3].submits = 1
    /\ step = 3

\* C7: the step counter starts at 0 and after m invocations of updateGrid,
\* submitted or abandoned, it reads exactly m.
C7_Thm ==
    /\ step = Len(frames)
    /\ \A k \in 1 .. Len(frames) : frames[k].step = k

C7_Witness ==
    /\ Len(frames) = 3
    /\ ~frames[2].acquired
    /\ step = 3

\* C8: consecutive invocations select different state buffers, an abandoned
\* invocation counted by the selection its step value gives.
SelectionOf(k) ==
    IF frames[k].bound # None THEN frames[k].bound
    ELSE SelectBindGroup(BindGroupPair, frames[k].step).entries[1]

C8_Thm ==
    \A k \in 1 .. Len(frames) - 1 : SelectionOf(k) # SelectionOf(k + 1)

C8_Witness ==
    /\ Len(frames) >= 3
    /\ frames[1].acquired
    /\ ~frames[2].acquired
    /\ frames[3].acquired
    /\ frames[1].bound = frames[3].bound

\* C9: every write filling the four buffers of an invocation is on the queue
\* ahead of that invocation's submit, and every draw the device has executed
\* found the buffers it reads already written.
C9_Thm ==
    /\ \A p \in Submits(queue) :
          \A l \in BufferLabels :
              \E q \in 1 .. p - 1 :
                  /\ queue[q].op = "writeBuffer"
                  /\ queue[q].inv = queue[p].inv
                  /\ queue[q].buffer = l
    /\ rendered.inputsReady
    /\ \A p \in ExecutedSubmits :
          \A l \in BufferLabels : buffers[queue[p].inv][l].written

C9_Witness ==
    /\ rendered.inv >= 2
    /\ executed = Len(queue)

\* C10: each vertex of an active cell's quad lies in the cell's own slot
\* [2c/N - 1, 2(c+1)/N - 1] on both axes, hence in [-1, 1], and the quads of
\* two different cells do not overlap.
Active == {i \in DOMAIN rendered.out : rendered.state[i] # 0}
QuadMin(i, a) ==
    CHOOSE m \in {rendered.out[i][v].pos[a] : v \in DOMAIN rendered.out[i]} :
        \A v \in DOMAIN rendered.out[i] : RLe(m, rendered.out[i][v].pos[a])
QuadMax(i, a) ==
    CHOOSE m \in {rendered.out[i][v].pos[a] : v \in DOMAIN rendered.out[i]} :
        \A v \in DOMAIN rendered.out[i] : RLe(rendered.out[i][v].pos[a], m)

\* the instances whose quads are compared with that of i: all of them on a
\* small grid, on a large one those of the cells around i's
Compared(i) ==
    IF N <= MaxGrid THEN Active
    ELSE {j \in Active : j - i \in {1, N - 1, N, N + 1}}

C10_Thm ==
    JustDrawn =>
    /\ \A i \in Active : \A v \in DOMAIN rendered.out[i] : \A a \in 1 .. 2 :
          LET c == rendered.out[i][v].cell[a]
              p == rendered.out[i][v].pos[a]
          IN  /\ RLe(RSub(Rat(2 * c, N), RInt(1)), p)
              /\ RLe(p, RSub(Rat(2 * (c + 1), N), RInt(1)))
              /\ RLe(RInt(-1), p)
              /\ RLe(p, RInt(1))
    /\ \A i \in Active : \A j \in Compared(i) :
          rendered.out[i][1].cell # rendered.out[j][1].cell =>
              \E a \in 1 .. 2 :
                  \/ RLe(QuadMax(i, a), QuadMin(j, a))
                  \/ RLe(QuadMax(j, a), QuadMin(i, a))

C10_Witness ==
    /\ N = GRID_SIZE_CONFIGURED
    /\ JustDrawn
    /\ rendered.bound = "Cell State B"
    /\ Cardinality(Active) = N * N
    /\ RLt(QuadMin(0, 1), QuadMax(0, 1))

====
